---- MODULE Spec2Model ----
(***************************************************************************)
(* A model of node.py of comfyui-replicate: the node-class registry, the   *)
(* input preparation and output shaping of run_replicate_model, the        *)
(* IS_CHANGED probe and the audio encoder.                                  *)
(*                                                                         *)
(* Python values are tagged records.  A str is a sequence of one-character *)
(* strings, so that split(",") and float() are computed, not assumed.      *)
(***************************************************************************)
EXTENDS Integers, Sequences, FiniteSets, TLC

\* ------------------------------------------------------------------ bounds
\* Longest str given to handle_array_inputs.
MaxStrLen == 5

\* The .json file names the schema directory may hold, and the models
\* (node names) their schemas may describe.
NumJsonFiles == 2

NumModels == 2

\* Calls of get_node_class_mappings in one process.
MaxCalls == 3

\* Items in a list that replicate.run returns.
MaxItems == 2

\* Dimensions of a waveform, and the size of each.
MaxDims == 4

MaxSize == 3

\* Readings of the clock that time.time() reads.
MaxTime == 4

\* ------------------------------------------------------------ Python values
Str(s) == [t |-> "str", s |-> s]

Float(v) == [t |-> "float", v |-> v]

IntV(v) == [t |-> "int", v |-> v]

BoolV(b) == [t |-> "bool", b |-> b]

None == [t |-> "none"]

List(items) == [t |-> "list", items |-> items]

Tuple(items) == [t |-> "tuple", items |-> items]

\* A torch.Tensor: its shape, and whether all its elements are zero.
Tensor(shape, zero) == [t |-> "tensor", shape |-> shape, zero |-> zero]

\* The characters a str of the model is made of.
Chars == {"1", "2", "f", ",", " "}

Digits == {"1", "2"}

DigitVal(c) == IF c = "1" THEN 1 ELSE 2

\* str.split(","): the pieces between the commas, empty pieces kept.
RECURSIVE SplitFrom(_, _, _)
SplitFrom(s, i, cur) ==
    IF i > Len(s) THEN <<cur>>
    ELSE IF s[i] = "," THEN <<cur>> \o SplitFrom(s, i + 1, <<>>)
    ELSE SplitFrom(s, i + 1, Append(cur, s[i]))

split(s) == SplitFrom(s, 1, <<>>)

\* str.strip() as float() applies it: leading and trailing blanks dropped.
RECURSIVE LStrip(_)
LStrip(s) == IF s # <<>> /\ Head(s) = " " THEN LStrip(Tail(s)) ELSE s

RECURSIVE RStrip(_)
RStrip(s) ==
    IF s # <<>> /\ s[Len(s)] = " " THEN RStrip(SubSeq(s, 1, Len(s) - 1)) ELSE s

strip(s) == RStrip(LStrip(s))

RECURSIVE DecimalValue(_)
DecimalValue(s) ==
    IF s = <<>> THEN 0
    ELSE 10 * DecimalValue(SubSeq(s, 1, Len(s) - 1)) + DigitVal(s[Len(s)])

\* Whether float(s) returns (TRUE) or raises ValueError (FALSE), for a str
\* over Chars: blanks around the number are accepted, blanks inside, letters
\* and the empty str are not.
FloatParses(s) ==
    LET core == strip(s)
    IN  core # <<>> /\ \A i \in 1..Len(core) : core[i] \in Digits

float(s) == Float(DecimalValue(strip(s)))

\* A faulty variant of ConvertItem: no piece is converted.
ConvertItemDropped(item) == Str(item)

\* Lines 119-124: each piece becomes a float when float() accepts it and is
\* kept as the str it was otherwise.
ConvertItem(item) == IF FloatParses(item) THEN float(item) ELSE Str(item)

ConvertItems(items) == [i \in 1..Len(items) |-> ConvertItem(items[i])]

\* Lines 114-129: what handle_array_inputs stores for one array-typed input.
CoerceArrayValue(v) ==
    IF v.t = "str"
    THEN IF v.s = <<>> THEN List(<<>>) ELSE List(ConvertItems(split(v.s)))
    ELSE IF v.t # "list" THEN List(<<v>>)
    ELSE v

\* Lines 110-129: handle_array_inputs on the argument mapping kw (a function
\* from the supplied names), array_inputs being inputs_that_need_arrays(schema).
handle_array_inputs(array_inputs, kw) ==
    [k \in DOMAIN kw |->
        IF k \in array_inputs THEN CoerceArrayValue(kw[k]) ELSE kw[k]]

\* ------------------------------------------------------- the generated node
\* What create_comfyui_node captures of a schema (lines 38-57): the inputs
\* inputs_that_need_arrays names, the two maps of INPUT_TYPES() (input name
\* to widget type) and get_return_type's result.  A single return type is
\* [isdict |-> FALSE, type |-> token, slots |-> <<>>]; a mapping of named
\* slots is [isdict |-> TRUE, type |-> "", slots |-> the (name, type) pairs
\* in the mapping's order].
SingleReturn(tok) == [isdict |-> FALSE, type |-> tok, slots |-> <<>>]

DictReturn(slots) == [isdict |-> TRUE, type |-> "", slots |-> slots]

\* Lines 51-55: RETURN_TYPES.
RETURN_TYPES(return_type) ==
    IF return_type.isdict
    THEN [i \in 1..Len(return_type.slots) |-> return_type.slots[i].type]
    ELSE <<return_type.type>>

\* A function's result: returned (ok, val) or raised (err names the exception).
Returned(v) == [ok |-> TRUE, val |-> v, err |-> ""]

Raised(e) == [ok |-> FALSE, val |-> None, err |-> e]

\* Python truthiness of the values the model holds (line 247: not kwargs[key]).
\* (bool() of a tensor of several elements raises; line 245 keeps tensors
\* from reaching line 247.)
Falsey(v) ==
    CASE v.t = "str" -> v.s = <<>>
      [] v.t = "int" -> v.v = 0
      [] v.t = "float" -> v.v = 0
      [] v.t = "bool" -> ~v.b
      [] v.t = "none" -> TRUE
      [] v.t = "list" -> v.items = <<>>
      [] v.t = "tuple" -> v.items = <<>>
      [] v.t = "tensor" -> v.zero
      [] OTHER -> FALSE

\* A faulty variant of Pruned: line 245's tensor test left out.
PrunedNoTensorCheck(optional, kw, k) ==
    k \in DOMAIN optional /\ Falsey(kw[k])

\* Lines 244-248: whether remove_falsey_optional_inputs deletes key k.
Pruned(optional, kw, k) ==
    k \in DOMAIN optional /\ kw[k].t # "tensor" /\ Falsey(kw[k])

\* Lines 241-248: remove_falsey_optional_inputs.
remove_falsey_optional_inputs(optional, kw) ==
    [k \in {x \in DOMAIN kw : ~Pruned(optional, kw, x)} |-> kw[k]]

\* ------------------------------------------------------------ media encoding
\* A PIL image, already decoded.
PilImage == [t |-> "pil"]

\* The editor's audio dict {"waveform": tensor of this shape, "sample_rate"}.
AudioDict(shape, rate) == [t |-> "audio", shape |-> shape, rate |-> rate]

DataURI(mime, shape) == [t |-> "datauri", mime |-> mime, shape |-> shape]

\* torch.Tensor.squeeze(): every dimension of size 1 dropped.
squeeze(shape) == SelectSeq(shape, LAMBDA d : d # 1)

\* Lines 71-83: image_to_base64.  permute(0, 3, 1, 2) needs four dimensions,
\* squeeze(0) drops the batch dimension only when it is 1, and ToPILImage
\* takes a 3-dimensional tensor of at most 4 channels; anything that is not
\* a tensor is saved as the PIL image it is taken to be.
image_to_base64(image) ==
    IF image.t = "tensor"
    THEN IF Len(image.shape) = 4 /\ image.shape[1] = 1 /\ image.shape[4] <= 4
         THEN Returned(DataURI("image/png", Tail(image.shape)))
         ELSE Raised("ValueError")
    ELSE IF image.t = "pil" THEN Returned(DataURI("image/png", <<>>))
    ELSE Raised("AttributeError")

\* Lines 86-94: the waveform audio_to_base64 takes from its argument: the
\* dict's, or the first of a two-element tuple or list.
HasWaveform(audio) ==
    \/ audio.t = "audio"
    \/ /\ audio.t \in {"tuple", "list"}
       /\ Len(audio.items) = 2
       /\ audio.items[1].t = "tensor"

WaveformShape(audio) ==
    IF audio.t = "audio" THEN audio.shape ELSE audio.items[1].shape

\* Lines 96-102: the waveform handed to the encoder, or the ValueError.
Normalize2D(shape) ==
    IF Len(shape) = 1 THEN Returned(<<1>> \o shape)
    ELSE IF Len(shape) > 2
         THEN IF Len(squeeze(shape)) > 2 THEN Raised("ValueError")
              ELSE Returned(squeeze(shape))
    ELSE Returned(shape)

\* Lines 85-108: audio_to_base64.  sf.write (line 105) takes an array of one
\* dimension (mono) or two and fails on a 0-dimensional one.
audio_to_base64(audio) ==
    IF ~HasWaveform(audio) THEN Raised("TypeError")
    ELSE LET w == Normalize2D(WaveformShape(audio))
         IN  IF ~w.ok THEN w
             ELSE IF Len(w.val) = 0 THEN Raised("IndexError")
             ELSE Returned(DataURI("audio/wav", w.val))

\* Lines 62-65: the widget type convert_input_images_to_base64 looks up.
InputType(required, optional, k) ==
    IF k \in DOMAIN required THEN required[k]
    ELSE IF k \in DOMAIN optional THEN optional[k]
    ELSE "none"

\* Lines 61-69: one argument's encoding.
EncodeValue(required, optional, k, v) ==
    IF v.t = "none" THEN Returned(v)
    ELSE IF InputType(required, optional, k) = "IMAGE" THEN image_to_base64(v)
    ELSE IF InputType(required, optional, k) = "AUDIO" THEN audio_to_base64(v)
    ELSE Returned(v)

\* Lines 59-69: convert_input_images_to_base64: the arguments with every image
\* and audio input encoded, or the exception of the first encoding that fails.
convert_input_images_to_base64(required, optional, kw) ==
    LET enc == [k \in DOMAIN kw |-> EncodeValue(required, optional, k, kw[k])]
    IN  IF \E k \in DOMAIN kw : ~enc[k].ok
        THEN enc[CHOOSE k \in DOMAIN kw : ~enc[k].ok]
        ELSE Returned([k \in DOMAIN kw |-> enc[k].val])

\* ------------------------------------------------------------ model output
\* What replicate.run hands back is made of: a byte-readable file object
\* (state "good": reads and decodes; "corrupt": reads, but no image or audio
\* codec decodes it; "unreadable": read() raises), str, None, and lists and
\* mappings of these.  A str whose first character is "h" stands for one that
\* starts with "http://" or "https://".
\* Good images of one response are taken to have one size, as torch.cat needs.
File(id, state) == [t |-> "file", id |-> id, state |-> state]

\* Lines 213-215: isinstance(item, str) and item.startswith("http://") or
\* item.startswith("https://").
IsUrl(item) == item.t = "str" /\ item.s # <<>> /\ Head(item.s) = "h"

\* Line 148, 178, 208: [output] if not isinstance(output, list) else output.
AsList(output) == IF output.t = "list" THEN output.items ELSE <<output>>

\* Lines 153-161: one item of handle_image_output: read(), Image.open, the
\* tensor.  Only a file object that reads and decodes gets through.
ImageItemOk(item) == item.t = "file" /\ item.state = "good"

ImageBatch(ids) == [t |-> "imgbatch", ids |-> ids]

\* Lines 143-171: handle_image_output.
handle_image_output(output) ==
    IF output.t = "none" THEN Returned(None)
    ELSE LET output_list == AsList(output)
         IN  IF output_list # <<>>
             THEN IF \E i \in 1..Len(output_list) : ~ImageItemOk(output_list[i])
                  THEN Raised("Exception")
                  ELSE Returned(ImageBatch(
                           [i \in 1..Len(output_list) |-> output_list[i].id]))
             ELSE Returned(None)

\* Line 182: if audio_file.  A file object is truthy; None and "" are not.
AudioItemSkipped(item) == Falsey(item)

\* Lines 183-187: read() and torchaudio.load of one item.
AudioItemOk(item) == item.t = "file" /\ item.state = "good"

AudioClip(id) == [t |-> "clip", id |-> id]

\* Lines 173-197: handle_audio_output.
handle_audio_output(output) ==
    IF output.t = "none" THEN Returned(None)
    ELSE LET output_list == AsList(output)
             kept == SelectSeq(output_list, LAMBDA x : ~AudioItemSkipped(x))
             audio_data == [i \in 1..Len(kept) |-> AudioClip(kept[i].id)]
         IN  IF \E i \in 1..Len(kept) : ~AudioItemOk(kept[i])
             THEN Raised("Exception")
             ELSE IF Len(audio_data) = 1 THEN Returned(audio_data[1])
             ELSE IF Len(audio_data) > 0 THEN Returned(List(audio_data))
             ELSE Returned(None)

\* Lines 213-233: whether one item of handle_svg_output yields an entry: a URL
\* that requests.get fetches (it is among the reachable ones), or a file
\* object whose read() succeeds; a failure is caught and printed.
SvgItemOk(item, reachable) ==
    \/ IsUrl(item) /\ item \in reachable
    \/ item.t = "file" /\ item.state # "unreadable"

SVG(data) == [t |-> "svg", data |-> data]

\* Lines 199-239: handle_svg_output.
handle_svg_output(output, reachable) ==
    IF output.t = "none" THEN Returned(None)
    ELSE LET output_list == AsList(output)
             svg_data == SelectSeq(output_list,
                                   LAMBDA x : SvgItemOk(x, reachable))
         IN  IF svg_data # <<>> THEN Returned(SVG(svg_data))
             ELSE Returned(None)

\* "".join(...) of lines 278 and 288: the chunks of an iterable of str.
RECURSIVE Concat(_)
Concat(chunks) ==
    IF chunks = <<>> THEN <<>> ELSE Head(chunks).s \o Concat(Tail(chunks))

\* Lines 278, 288: "".join(list(output)).strip().  A str is joined from its
\* own characters, a list from its items, which must all be str; None is not
\* iterable, and a file object iterates over bytes, which join refuses.
handle_text_output(output) ==
    IF output.t = "str" THEN Returned(Str(strip(output.s)))
    ELSE IF output.t = "list"
              /\ \A i \in 1..Len(output.items) : output.items[i].t = "str"
         THEN Returned(Str(strip(Concat(output.items))))
    ELSE Raised("TypeError")

\* Lines 264-279: one named slot.  output.get(name) is None for a missing
\* name; the text slot's output.get(name, "") is "" for a missing name.  A slot
\* type that no branch names appends nothing.
Missing == [t |-> "missing"]

SlotGet(output, name, default) ==
    IF name \in DOMAIN output.slots /\ output.slots[name].t # "missing"
    THEN output.slots[name]
    ELSE default

\* A faulty variant of SlotResult: the STRING branch left out.
SlotResultNoText(output, slot, reachable) ==
    CASE slot.type = "IMAGE" ->
            <<handle_image_output(SlotGet(output, slot.name, None))>>
      [] slot.type = "AUDIO" ->
            <<handle_audio_output(SlotGet(output, slot.name, None))>>
      [] slot.type = "SVG" ->
            <<handle_svg_output(SlotGet(output, slot.name, None), reachable)>>
      [] OTHER -> <<>>

\* Lines 264-279: the result a slot appends, if any.
SlotResult(output, slot, reachable) ==
    CASE slot.type = "IMAGE" ->
            <<handle_image_output(SlotGet(output, slot.name, None))>>
      [] slot.type = "AUDIO" ->
            <<handle_audio_output(SlotGet(output, slot.name, None))>>
      [] slot.type = "SVG" ->
            <<handle_svg_output(SlotGet(output, slot.name, None), reachable)>>
      [] slot.type = "STRING" ->
            <<handle_text_output(SlotGet(output, slot.name, Str(<<>>)))>>
      [] OTHER -> <<>>

\* The results of the slots in the mapping's order (lines 263-279).
RECURSIVE SlotResults(_, _, _)
SlotResults(output, slots, reachable) ==
    IF slots = <<>> THEN <<>>
    ELSE SlotResult(output, Head(slots), reachable)
            \o SlotResults(output, Tail(slots), reachable)

\* Lines 281-288: a single return type.
SingleResult(output, type, reachable) ==
    CASE type = "IMAGE" -> handle_image_output(output)
      [] type = "AUDIO" -> handle_audio_output(output)
      [] type = "SVG" -> handle_svg_output(output, reachable)
      [] OTHER -> handle_text_output(output)

\* A replicate.run result that is a mapping of named slots.
DictOutput(slots) == [t |-> "dict", slots |-> slots]

\* Lines 261-290: the tuple run_replicate_model returns for the model's
\* output, or the exception of the first handler that raises.  output.get
\* (lines 266-278) exists on a mapping only.
shape_output(return_type, output, reachable) ==
    IF return_type.isdict
    THEN IF output.t # "dict" THEN Raised("AttributeError")
         ELSE LET rs == SlotResults(output, return_type.slots, reachable)
              IN  IF \E i \in 1..Len(rs) : ~rs[i].ok
                  THEN Raised("Exception")
                  ELSE Returned([i \in 1..Len(rs) |-> rs[i].val])
    ELSE LET r == SingleResult(output, return_type.type, reachable)
         IN  IF r.ok THEN Returned(<<r.val>>) ELSE r

\* ----------------------------------------------------- run_replicate_model
\* A faulty variant of kwargs_without_force_rerun: nothing filtered out.
kwargs_with_force_rerun(kw) == kw

\* Lines 255-257: kwargs_without_force_rerun.
kwargs_without_force_rerun(kw) ==
    [k \in DOMAIN kw \ {"force_rerun"} |-> kw[k]]

\* Lines 250-290: run_replicate_model on the arguments kw.  remote is what
\* replicate.run does when called (line 258): Returned(output) or Raised.
\* The record keeps the arguments after each step, the input mappings of the
\* remote calls made, and what the invocation returns or raises.  (log_input,
\* line 254, prints and changes nothing.)
run_replicate_model(nd, kw, rem, reach) ==
    LET k1 == handle_array_inputs(nd.array_inputs, kw)
        k2 == remove_falsey_optional_inputs(nd.optional, k1)
        k3 == convert_input_images_to_base64(nd.required, nd.optional, k2)
    IN  IF ~k3.ok
        THEN [arrays |-> k1, pruned |-> k2, encoded |-> k3,
              calls |-> <<>>, result |-> k3]
        ELSE [arrays |-> k1, pruned |-> k2, encoded |-> k3,
              calls |-> <<kwargs_without_force_rerun(k3.val)>>,
              result |-> IF ~rem.ok THEN rem
                         ELSE shape_output(nd.return_type, rem.val, reach)]

\* ---------------------------------------------------------------- IS_CHANGED
\* A faulty variant of IS_CHANGED: the two branches swapped.
IS_CHANGED_inverted(kw, clock) ==
    IF "force_rerun" \notin DOMAIN kw THEN Raised("KeyError")
    ELSE IF Falsey(kw["force_rerun"]) THEN Returned(Float(clock))
    ELSE Returned(Str(<<>>))

\* Lines 43-45: IS_CHANGED(**kwargs), with time.time() reading clock.
IS_CHANGED(kw, clock) ==
    IF "force_rerun" \notin DOMAIN kw THEN Raised("KeyError")
    ELSE IF ~Falsey(kw["force_rerun"]) THEN Returned(Float(clock))
    ELSE Returned(Str(<<>>))

\* ------------------------------------------------------------- the registry
\* A file of the schema directory: its name (a stem and an extension) and
\* its content, a schema or text that json.load or create_comfyui_node
\* rejects.  A schema is known by the model it describes.
FileName(stem, ext) == [stem |-> stem, ext |-> ext]

Schema(model) == [valid |-> TRUE, model |-> model]

Malformed == [valid |-> FALSE, model |-> 0]

\* Line 39: the node name name_and_version derives from a schema.
name_and_version(schema) == schema.model

\* Lines 38-292: create_comfyui_node: the name and the class generated for
\* the schema read from file f.
create_comfyui_node(schema, f) ==
    [node_name |-> name_and_version(schema),
     node_class |-> [schema |-> schema, file |-> f]]

\* A faulty variant of IsSchemaFile: every file taken for a schema file.
IsSchemaFileAny(f) == TRUE

\* Line 300: schema_file.endswith(".json").
IsSchemaFile(f) == f.ext = "json"

\* Lines 299-306: the loop over os.listdir's names, in the order listing gives
\* them, from the mapping nodes built so far.
RECURSIVE LoadSchemas(_, _, _)
LoadSchemas(d, listing, nodes) ==
    IF listing = <<>> THEN Returned(nodes)
    ELSE LET f == Head(listing)
         IN  IF ~IsSchemaFile(f) THEN LoadSchemas(d, Tail(listing), nodes)
             ELSE IF ~d[f].valid THEN Raised("JSONDecodeError")
             ELSE LET n == create_comfyui_node(d[f], f)
                  IN  LoadSchemas(d, Tail(listing),
                         [k \in DOMAIN nodes \cup {n.node_name} |->
                             IF k = n.node_name THEN n.node_class
                             ELSE nodes[k]])

\* Lines 295-307: create_comfyui_nodes_from_schemas on directory d (a function
\* from the names present to their contents), os.listdir giving listing.
create_comfyui_nodes_from_schemas(d, listing) == LoadSchemas(d, listing, <<>>)

\* Line 310 and 316: _cached_node_class_mappings is None or a mapping.
NoCache == [set |-> FALSE, map |-> <<>>]

Cached(m) == [set |-> TRUE, map |-> m]

\* A faulty variant of CacheMiss: "not _cached_node_class_mappings", which an
\* empty mapping satisfies too.
CacheMissIfEmpty(c) == ~c.set \/ DOMAIN c.map = {}

\* Line 315: _cached_node_class_mappings is None.
CacheMiss(c) == ~c.set

\* -------------------------------------------------------------------- state
VARIABLES
    \* the registry (lines 295-320)
    dir,          \* the schema directory: file name -> content
    cache,        \* _cached_node_class_mappings
    regPc,        \* "loading" until a build raises, then "failed"
    calls,        \* calls of get_node_class_mappings made so far
    scans,        \* how many of them scanned the directory
    regRet,       \* what the last call returned
    firstBuilt,   \* what the first scan built
    \* create_comfyui_nodes_from_schemas alone (lines 295-307)
    loadDir,      \* the directory it is called on
    loadListing,  \* the order in which os.listdir gives its names
    loadOut,      \* what it returns or raises
    loadDone,     \* whether it has run
    \* handle_array_inputs alone (lines 110-129)
    arrInputs,    \* inputs_that_need_arrays(schema)
    arrIn,        \* kwargs before
    arrOut,       \* kwargs after
    arrDone,      \* whether handle_array_inputs has run
    \* one generated node and its last invocation (lines 250-290)
    node,         \* what the class captured of its schema
    kwargs,       \* the arguments of the last invocation
    remote,       \* what replicate.run does in it
    reachable,    \* the URLs requests.get can fetch in it
    run,          \* run_replicate_model's record of it
    invoked,      \* whether the node was invoked at all
    \* IS_CHANGED (lines 43-45)
    now,          \* the clock time.time() reads
    probeLog,     \* the last two calls: arguments, clock reading, result
    \* audio_to_base64 alone (lines 85-108)
    audIn,
    audOut,
    audDone

regVars == <<dir, cache, regPc, calls, scans, regRet, firstBuilt>>

loadVars == <<loadDir, loadListing, loadOut, loadDone>>

arrVars == <<arrInputs, arrIn, arrOut, arrDone>>

runVars == <<node, kwargs, remote, reachable, run, invoked>>

probeVars == <<now, probeLog>>

audVars == <<audIn, audOut, audDone>>

vars == <<regVars, loadVars, arrVars, runVars, probeVars, audVars>>

\* The empty mapping (a dict with no key).
Empty == <<>>

\* The part of the state a specification does not exercise.
RegIdle ==
    /\ dir = Empty /\ cache = NoCache /\ regPc = "loading" /\ calls = 0
    /\ scans = 0 /\ regRet = Empty /\ firstBuilt = Empty

LoadIdle ==
    /\ loadDir = Empty /\ loadListing = <<>> /\ loadOut = Returned(Empty)
    /\ loadDone = FALSE

ArrIdle ==
    arrInputs = {} /\ arrIn = Empty /\ arrOut = Empty /\ arrDone = FALSE

IdleNode ==
    [array_inputs |-> {}, required |-> Empty, optional |-> Empty,
     return_type |-> SingleReturn("STRING")]

IdleRun ==
    [arrays |-> Empty, pruned |-> Empty, encoded |-> Returned(Empty),
     calls |-> <<>>, result |-> Returned(<<>>)]

RunIdle ==
    /\ node = IdleNode /\ kwargs = Empty /\ remote = Returned(None)
    /\ reachable = {} /\ run = IdleRun /\ invoked = FALSE

ProbeIdle == now = 1 /\ probeLog = <<>>

AudIdle == audIn = None /\ audOut = Returned(None) /\ audDone = FALSE

\* ------------------------------------------------------------- the registry
JsonNames == {FileName(i, "json") : i \in 1..NumJsonFiles}

\* One file that is no schema file, whatever it holds.
OtherNames == {FileName(1, "bak")}

Contents == {Schema(m) : m \in 1..NumModels} \cup {Malformed}

Directories ==
    UNION {[names -> Contents] : names \in SUBSET (JsonNames \cup OtherNames)}

\* The orders in which os.listdir may give the names of directory d.
Listings(d) ==
    {l \in [1..Cardinality(DOMAIN d) -> DOMAIN d] :
        \A i, j \in DOMAIN l : i # j => l[i] # l[j]}

RegInit ==
    /\ dir \in Directories
    /\ cache = NoCache /\ regPc = "loading" /\ calls = 0 /\ scans = 0
    /\ regRet = Empty /\ firstBuilt = Empty

\* Lines 313-317 (and line 320, the module's own first call): a call of
\* get_node_class_mappings.  A build that raises ends the module's import.
get_node_class_mappings ==
    /\ regPc = "loading"
    /\ calls < MaxCalls
    /\ calls' = calls + 1
    /\ IF CacheMiss(cache)
       THEN \E listing \in Listings(dir) :
              LET built == create_comfyui_nodes_from_schemas(dir, listing)
              IN  /\ scans' = scans + 1
                  /\ IF built.ok
                     THEN /\ cache' = Cached(built.val)
                          /\ regRet' = built.val
                          /\ firstBuilt' = IF scans = 0 THEN built.val
                                           ELSE firstBuilt
                          /\ regPc' = regPc
                     ELSE /\ regPc' = "failed"
                          /\ UNCHANGED <<cache, regRet, firstBuilt>>
       ELSE /\ regRet' = cache.map
            /\ UNCHANGED <<cache, regPc, scans, firstBuilt>>
    /\ UNCHANGED <<dir, loadVars, arrVars, runVars, probeVars, audVars>>

\* The environment adds, replaces or removes one file of the directory.
DirChange ==
    /\ regPc = "loading"
    /\ \E f \in JsonNames \cup OtherNames :
          \/ \E c \in Contents :
                dir' = [g \in DOMAIN dir \cup {f} |->
                           IF g = f THEN c ELSE dir[g]]
          \/ /\ f \in DOMAIN dir
             /\ dir' = [g \in DOMAIN dir \ {f} |-> dir[g]]
    /\ dir' # dir
    /\ UNCHANGED <<cache, regPc, calls, scans, regRet, firstBuilt, loadVars,
                   arrVars, runVars, probeVars, audVars>>

RegNext == get_node_class_mappings \/ DirChange

InitRegistry ==
    RegInit /\ LoadIdle /\ ArrIdle /\ RunIdle /\ ProbeIdle /\ AudIdle

SpecRegistry == InitRegistry /\ [][RegNext]_vars

\* C1: over any sequence of calls of get_node_class_mappings in one process,
\* only the first call scans the schema directory and builds the mapping;
\* every later call returns that same mapping, whatever has become of the
\* directory since, also when the mapping built is empty.
C1_BuiltOnceThenCached ==
    /\ scans <= 1
    /\ (calls >= 1 /\ regPc = "loading") =>
          /\ scans = 1
          /\ cache = Cached(firstBuilt)
          /\ regRet = firstBuilt

\* A later call has returned the empty mapping the first call built, although
\* the directory holds a well-formed schema file by now.
C1_Witness ==
    /\ calls >= 2 /\ regPc = "loading"
    /\ DOMAIN firstBuilt = {} /\ DOMAIN regRet = {}
    /\ \E f \in DOMAIN dir : f.ext = "json" /\ dir[f].valid

\* ------------------------------- create_comfyui_nodes_from_schemas alone
LoadInit ==
    /\ loadDir \in Directories
    /\ loadListing \in Listings(loadDir)
    /\ loadOut = Returned(Empty)
    /\ loadDone = FALSE

\* Lines 295-307: the call of create_comfyui_nodes_from_schemas.
CreateNodesFromSchemas ==
    /\ ~loadDone
    /\ loadOut' = create_comfyui_nodes_from_schemas(loadDir, loadListing)
    /\ loadDone' = TRUE
    /\ UNCHANGED <<loadDir, loadListing, regVars, arrVars, runVars,
                   probeVars, audVars>>

InitLoader ==
    RegIdle /\ LoadInit /\ ArrIdle /\ RunIdle /\ ProbeIdle /\ AudIdle

SpecLoader == InitLoader /\ [][CreateNodesFromSchemas]_vars

\* The schema files of the directory, and the position of a name in the
\* listing.
ScannedSchemaFiles == {f \in DOMAIN loadDir : f.ext = "json"}

ListedAt(f) == CHOOSE i \in DOMAIN loadListing : loadListing[i] = f

\* C2 as stated: the mapping create_comfyui_nodes_from_schemas returns has
\* exactly one node class per schema (.json) file, so as many entries as the
\* directory has schema files.
C2_OneEntryPerSchemaFile ==
    (loadDone /\ loadOut.ok) =>
        /\ Cardinality(DOMAIN loadOut.val) = Cardinality(ScannedSchemaFiles)
        /\ \A f \in ScannedSchemaFiles :
              /\ name_and_version(loadDir[f]) \in DOMAIN loadOut.val
              /\ loadOut.val[name_and_version(loadDir[f])].file = f

\* C2 as amended: the mapping returned has exactly one entry per distinct node
\* name derived from the schema (.json) files, holding the class generated
\* from the last-listed file of that name; it has as many entries as schema
\* files exactly when their names are pairwise distinct, and fewer otherwise;
\* files that are not schema files add no entry.
C2_OneEntryPerNodeName ==
    (loadDone /\ loadOut.ok) =>
        /\ DOMAIN loadOut.val =
              {name_and_version(loadDir[f]) : f \in ScannedSchemaFiles}
        /\ \A n \in DOMAIN loadOut.val :
              LET f == loadOut.val[n].file
              IN  /\ f \in ScannedSchemaFiles
                  /\ name_and_version(loadDir[f]) = n
                  /\ loadOut.val[n].schema = loadDir[f]
                  /\ \A g \in ScannedSchemaFiles :
                        name_and_version(loadDir[g]) = n =>
                            ListedAt(g) <= ListedAt(f)
        /\ Cardinality(DOMAIN loadOut.val) <= Cardinality(ScannedSchemaFiles)
        /\ (Cardinality(DOMAIN loadOut.val) = Cardinality(ScannedSchemaFiles)
              <=> \A f, g \in ScannedSchemaFiles :
                     name_and_version(loadDir[f]) = name_and_version(loadDir[g])
                        => f = g)

\* Two schema files of one node name were scanned, beside a file that is no
\* schema file and holds a schema of another name: one entry was built.
C2_Witness ==
    /\ loadDone /\ loadOut.ok
    /\ Cardinality(ScannedSchemaFiles) = 2
    /\ Cardinality(DOMAIN loadOut.val) = 1
    /\ \E f \in DOMAIN loadDir :
          /\ f.ext # "json" /\ loadDir[f].valid
          /\ name_and_version(loadDir[f]) \notin DOMAIN loadOut.val

\* ------------------------------------------------ handle_array_inputs alone
\* An input the caller does not supply.
Absent == [t |-> "absent"]

\* The mapping of the supplied ones among inputs a and b.
MakeKwargs(va, vb) ==
    [k \in {x \in {"a", "b"} :
               (x = "a" /\ va # Absent) \/ (x = "b" /\ vb # Absent)} |->
        IF k = "a" THEN va ELSE vb]

Strings(n) == {Str(s) : s \in UNION {[1..k -> Chars] : k \in 0..n}}

\* What is not a str: scalars, None, lists, a tuple, a tensor.
NonStrings ==
    {IntV(0), IntV(7), Float(2), BoolV(FALSE), None, List(<<>>),
     List(<<Float(1), Str(<<"f">>)>>), Tuple(<<IntV(1), IntV(2)>>),
     Tensor(<<1>>, TRUE)}

ArrValuesA == Strings(MaxStrLen) \cup NonStrings

ArrValuesB == {Str(<<"1", ",", "2">>), IntV(0), List(<<>>)}

\* A node whose schema marks some of a and b as array-typed, and the
\* arguments it is about to be given.
ArrInit ==
    /\ arrInputs \in SUBSET {"a", "b"}
    /\ \E va \in ArrValuesA \cup {Absent}, vb \in ArrValuesB \cup {Absent} :
          arrIn = MakeKwargs(va, vb)
    /\ arrOut = Empty
    /\ arrDone = FALSE

\* Lines 110-129: the call of handle_array_inputs.
HandleArrayInputs ==
    /\ ~arrDone
    /\ arrOut' = handle_array_inputs(arrInputs, arrIn)
    /\ arrDone' = TRUE
    /\ UNCHANGED <<arrInputs, arrIn, regVars, loadVars, runVars, probeVars,
                   audVars>>

InitArrays == RegIdle /\ LoadIdle /\ ArrInit /\ RunIdle /\ ProbeIdle /\ AudIdle

SpecArrays == InitArrays /\ [][HandleArrayInputs]_vars

\* The pieces joined by commas again.
RECURSIVE JoinComma(_)
JoinComma(pieces) ==
    IF Len(pieces) = 1 THEN pieces[1]
    ELSE pieces[1] \o <<",">> \o JoinComma(Tail(pieces))

IsScalar(v) == v.t \in {"int", "float", "bool"}

\* C3: for every array-typed input present in the arguments,
\* handle_array_inputs turns "" into the empty list, a non-empty str into its
\* comma-separated pieces, each a number when float() accepts it and the text
\* it was otherwise ("1,2,f" becomes [1.0, 2.0, "f"]), a bare scalar into a
\* one-element list, and leaves a list as it is; every other input is left
\* as it is, and no input is added or removed.
C3_ArrayCoercion ==
    arrDone =>
    /\ DOMAIN arrOut = DOMAIN arrIn
    /\ \A k \in DOMAIN arrIn :
          LET v == arrIn[k]
              out == arrOut[k]
          IN  IF k \notin arrInputs THEN out = v
              ELSE /\ (v.t = "str" /\ v.s = <<>>) => out = List(<<>>)
                   /\ (v.t = "str" /\ v.s # <<>>) =>
                         LET pieces == split(v.s)
                         IN  /\ JoinComma(pieces) = v.s
                             /\ \A i \in DOMAIN pieces :
                                   \A j \in DOMAIN pieces[i] :
                                      pieces[i][j] # ","
                             /\ out.t = "list"
                             /\ Len(out.items) = Len(pieces)
                             /\ \A i \in DOMAIN pieces :
                                   out.items[i] =
                                      IF FloatParses(pieces[i])
                                      THEN Float(DecimalValue(strip(pieces[i])))
                                      ELSE Str(pieces[i])
                   /\ v = Str(<<"1", ",", "2", ",", "f">>) =>
                         out = List(<<Float(1), Float(2), Str(<<"f">>)>>)
                   /\ IsScalar(v) => out = List(<<v>>)
                   /\ v.t = "list" => out = v

\* "1,2,f" was coerced for the array-typed input a, beside an input b that is
\* not array-typed and kept its str.
C3_Witness ==
    /\ arrDone
    /\ "a" \in DOMAIN arrIn /\ "a" \in arrInputs
    /\ arrIn["a"] = Str(<<"1", ",", "2", ",", "f">>)
    /\ arrOut["a"] = List(<<Float(1), Float(2), Str(<<"f">>)>>)
    /\ "b" \in DOMAIN arrIn /\ "b" \notin arrInputs
    /\ arrOut["b"] = Str(<<"1", ",", "2">>)

\* ---------------------------------------------- invocations of one node
\* The node of the input-side runs: input x is required or optional, array-
\* typed or not, of widget type xType; input y is an INT, required or
\* optional; force_rerun is the optional BOOLEAN every node has.
MakeNode(xRole, xArray, xType, yRole, rt) ==
    [array_inputs |-> IF xArray THEN {"x"} ELSE {},
     required |->
        [k \in {n \in {"x", "y"} : (n = "x" /\ xRole = "required")
                                      \/ (n = "y" /\ yRole = "required")} |->
            IF k = "x" THEN xType ELSE "INT"],
     optional |->
        [k \in {n \in {"x", "y", "force_rerun"} :
                   \/ n = "x" /\ xRole = "optional"
                   \/ n = "y" /\ yRole = "optional"
                   \/ n = "force_rerun"} |->
            IF k = "x" THEN xType
            ELSE IF k = "y" THEN "INT" ELSE "BOOLEAN"],
     return_type |-> rt]

Roles == {"required", "optional"}

InputNodes ==
    {MakeNode(xr, xa, xt, yr, SingleReturn("STRING")) :
        xr \in Roles, xa \in BOOLEAN, xt \in {"IMAGE", "AUDIO", "STRING"},
        yr \in Roles}

\* The mapping of the supplied ones among x, y and force_rerun.
MakeKwargs3(vx, vy, vf) ==
    [k \in {n \in {"x", "y", "force_rerun"} :
               \/ n = "x" /\ vx # Absent
               \/ n = "y" /\ vy # Absent
               \/ n = "force_rerun" /\ vf # Absent} |->
        IF k = "x" THEN vx ELSE IF k = "y" THEN vy ELSE vf]

\* Values for x: falsey and truthy ones of every kind, image tensors of batch
\* size 1 (all zero or not) and 2, a PIL image, audio of 2, 3 and 3
\* unsqueezable dimensions, and an audio tuple.
XValues ==
    {Str(<<>>), Str(<<"1", ",", "2">>), IntV(0), IntV(7), Float(0), None,
     BoolV(FALSE), List(<<>>), List(<<Float(1)>>), Tuple(<<>>),
     Tensor(<<1, 2, 2, 3>>, TRUE), Tensor(<<1, 2, 2, 3>>, FALSE),
     Tensor(<<2, 2, 2, 3>>, FALSE), PilImage,
     AudioDict(<<2, 3>>, 8), AudioDict(<<1, 2, 3>>, 8),
     AudioDict(<<2, 2, 3>>, 8),
     Tuple(<<Tensor(<<3>>, FALSE), IntV(8)>>)}

InputKwargs ==
    {MakeKwargs3(vx, vy, vf) :
        vx \in XValues \cup {Absent},
        vy \in {IntV(0), IntV(3), Absent},
        vf \in {BoolV(TRUE), BoolV(FALSE), Absent}}

InputRemotes ==
    {Returned(Str(<<" ", "f">>)), Returned(None), Raised("ReplicateError")}

InputsInit ==
    /\ node \in InputNodes
    /\ kwargs \in InputKwargs
    /\ remote \in InputRemotes
    /\ reachable = {}
    /\ run = IdleRun
    /\ invoked = FALSE

\* Lines 250-290: the invocation of run_replicate_model.
Invoke ==
    /\ ~invoked
    /\ run' = run_replicate_model(node, kwargs, remote, reachable)
    /\ invoked' = TRUE
    /\ UNCHANGED <<node, kwargs, remote, reachable, regVars, loadVars, arrVars,
                   probeVars, audVars>>

InitInputs ==
    RegIdle /\ LoadIdle /\ ArrIdle /\ InputsInit /\ ProbeIdle /\ AudIdle

SpecInputs == InitInputs /\ [][Invoke]_vars

\* The output-side runs: a node of any return type, given one fixed set of
\* arguments, and any output of replicate.run.
ReturnTypeTokens == {"IMAGE", "AUDIO", "SVG", "STRING"}

SlotNames == {"a", "b"}

DictReturnTypes ==
    {DictReturn(sl) :
        sl \in {q \in UNION {[1..n -> [name : SlotNames,
                                        type : ReturnTypeTokens]] :
                                n \in 1..Cardinality(SlotNames)} :
                   \A i, j \in DOMAIN q : i # j => q[i].name # q[j].name}}

OutputNodes ==
    {MakeNode("optional", FALSE, "STRING", "optional", rt) :
        rt \in {SingleReturn(tok) : tok \in ReturnTypeTokens}
                  \cup DictReturnTypes}

Urls == {Str(<<"h", "1">>), Str(<<"h", "2">>)}

Items ==
    {File(1, "good"), File(2, "good"), File(3, "corrupt"),
     File(4, "unreadable"), Str(<<>>), Str(<<" ", "f">>), None} \cup Urls

SingleOutputs ==
    Items \cup {List(l) : l \in UNION {[1..n -> Items] : n \in 0..MaxItems}}

SlotValues ==
    {Missing, None, File(1, "good"), List(<<File(1, "good"), File(2, "good")>>),
     List(<<File(1, "good"), File(3, "corrupt")>>), Str(<<" ", "f">>),
     List(<<>>)}

DictOutputs ==
    {DictOutput(sl) : sl \in [SlotNames -> SlotValues]}
        \cup {None, List(<<>>)}

OutputsInit ==
    /\ node \in OutputNodes
    /\ kwargs = MakeKwargs3(Str(<<"f">>), Absent, BoolV(TRUE))
    /\ remote \in {Raised("ReplicateError")} \cup
          {Returned(o) : o \in IF node.return_type.isdict THEN DictOutputs
                               ELSE SingleOutputs}
    /\ reachable \in SUBSET Urls
    /\ run = IdleRun
    /\ invoked = FALSE

InitOutputs ==
    RegIdle /\ LoadIdle /\ ArrIdle /\ OutputsInit /\ ProbeIdle /\ AudIdle

SpecOutputs == InitOutputs /\ [][Invoke]_vars

\* C4 as stated: after optional pruning in run_replicate_model an optional
\* input is absent from the arguments if and only if its value is falsey and
\* is not a tensor; an optional tensor is never removed, and no required
\* input is.
C4_PrunedIffFalsey ==
    invoked =>
        \A k \in DOMAIN kwargs :
            /\ k \in DOMAIN node.optional =>
                  (k \notin DOMAIN run.pruned
                      <=> (Falsey(kwargs[k]) /\ kwargs[k].t # "tensor"))
            /\ (k \in DOMAIN node.optional /\ kwargs[k].t = "tensor") =>
                  k \in DOMAIN run.pruned
            /\ k \in DOMAIN node.required => k \in DOMAIN run.pruned

\* C4 as amended: after optional pruning an optional input is absent from the
\* arguments if and only if its value as array coercion left it is falsey and
\* is not a tensor (so an array-typed optional input given a falsey scalar or
\* null is wrapped in a list and kept); an optional input given a tensor is
\* never removed, no required input is, and what is kept keeps the value
\* array coercion gave it.
C4_PrunedIffFalseyAfterCoercion ==
    invoked =>
        /\ DOMAIN run.arrays = DOMAIN kwargs
        /\ DOMAIN run.pruned \subseteq DOMAIN kwargs
        /\ \A k \in DOMAIN kwargs :
              /\ k \in DOMAIN node.optional =>
                    (k \notin DOMAIN run.pruned
                        <=> (Falsey(run.arrays[k])
                                /\ run.arrays[k].t # "tensor"))
              /\ (k \in DOMAIN node.optional /\ kwargs[k].t = "tensor") =>
                    k \in DOMAIN run.pruned
              /\ k \in DOMAIN node.required => k \in DOMAIN run.pruned
              /\ k \in DOMAIN run.pruned => run.pruned[k] = run.arrays[k]

\* One invocation in which an optional array-typed input given 0 was wrapped
\* and kept, a required input given 0 was kept, and the optional force_rerun
\* given False was removed.
C4_Witness ==
    /\ invoked
    /\ DOMAIN kwargs = {"x", "y", "force_rerun"}
    /\ "x" \in DOMAIN node.optional /\ "x" \in node.array_inputs
    /\ kwargs["x"] = IntV(0)
    /\ "x" \in DOMAIN run.pruned /\ run.pruned["x"] = List(<<IntV(0)>>)
    /\ "y" \in DOMAIN node.required /\ kwargs["y"] = IntV(0)
    /\ "y" \in DOMAIN run.pruned
    /\ kwargs["force_rerun"] = BoolV(FALSE)
    /\ "force_rerun" \notin DOMAIN run.pruned

\* What a remote call was given, checked against the three preparation steps.
Prepared(args) ==
    \A k \in DOMAIN args :
        /\ k \in node.array_inputs => args[k].t = "list"
        /\ k \in DOMAIN node.optional =>
              (~Falsey(args[k]) \/ args[k].t = "tensor")
        /\ InputType(node.required, node.optional, k) \in {"IMAGE", "AUDIO"}
              => args[k].t \in {"datauri", "none"}

\* C5 as stated: every invocation of run_replicate_model issues exactly one
\* remote call, made after array coercion, pruning and encoding, whose
\* arguments are the resolved ones without force_rerun; the call is not
\* retried, and its failure propagates with no tuple returned.
C5_ExactlyOneRemoteCall ==
    invoked =>
        /\ Len(run.calls) = 1
        /\ "force_rerun" \notin DOMAIN run.calls[1]
        /\ Prepared(run.calls[1])
        /\ ~remote.ok => run.result = remote

\* C5 as amended: an invocation whose media encoding raises (an image tensor
\* that is no single image, a waveform still of more than two dimensions
\* after squeezing, a value that is no image or audio) issues no remote call
\* and raises that error; every other invocation issues exactly one remote
\* call, made after array coercion, pruning and encoding, whose arguments are
\* the resolved ones without force_rerun; the call is not retried, and its
\* failure propagates with no tuple returned.
C5_OneRemoteCallOncePrepared ==
    invoked =>
        IF run.encoded.ok
        THEN /\ Len(run.calls) = 1
             /\ DOMAIN run.calls[1] = DOMAIN run.encoded.val \ {"force_rerun"}
             /\ DOMAIN run.encoded.val = DOMAIN run.pruned
             /\ \A k \in DOMAIN run.calls[1] :
                   run.calls[1][k] = run.encoded.val[k]
             /\ Prepared(run.calls[1])
             /\ ~remote.ok => run.result = remote
        ELSE /\ run.calls = <<>>
             /\ run.result = run.encoded
             /\ ~run.result.ok

\* One invocation with force_rerun set and an image tensor for x: the one call
\* got the image as a data URI and no force_rerun, and its failure came back.
C5_Witness ==
    /\ invoked
    /\ "force_rerun" \in DOMAIN kwargs /\ kwargs["force_rerun"] = BoolV(TRUE)
    /\ "x" \in DOMAIN kwargs /\ kwargs["x"].t = "tensor"
    /\ Len(run.calls) = 1
    /\ DOMAIN run.calls[1] = {"x", "y"}
    /\ run.calls[1]["x"].t = "datauri"
    /\ ~remote.ok /\ ~run.result.ok

\* The result the handler of a slot type gives for a slot's value.
HandlerResult(type, output, name) ==
    CASE type = "IMAGE" -> handle_image_output(SlotGet(output, name, None))
      [] type = "AUDIO" -> handle_audio_output(SlotGet(output, name, None))
      [] type = "SVG" ->
            handle_svg_output(SlotGet(output, name, None), reachable)
      [] OTHER -> handle_text_output(SlotGet(output, name, Str(<<>>)))

NullOrEmpty(output) ==
    output.t = "none" \/ (output.t = "list" /\ output.items = <<>>)

NullOrEmptyResult(r) == r.t = "none" \/ (r.t = "str" /\ r.s = <<>>)

\* C7: for every declared return type (image, audio, vector-graphic, text;
\* single or as a named slot), a null or empty model output makes
\* run_replicate_model return a null or empty result for that output instead
\* of raising.
C7_NullOutputGivesNullResult ==
    (invoked /\ remote.ok /\ NullOrEmpty(remote.val)) =>
        /\ run.result.ok
        /\ \A i \in DOMAIN run.result.val :
              NullOrEmptyResult(run.result.val[i])

\* An item a media handler could not fetch, read or decode.
FailedItem(type, item) ==
    CASE type = "IMAGE" -> ~ImageItemOk(item)
      [] type = "AUDIO" -> ~AudioItemOk(item)
      [] OTHER -> ~SvgItemOk(item, reachable)

\* A file object or a URL among the items of a response.
MediaItem(type, item) ==
    item.t = "file" \/ (type = "SVG" /\ IsUrl(item))

\* C8: in each of the image, audio and vector-graphic handlers, when one item
\* of a multi-item response fails to fetch, read or decode, that item is
\* skipped and the remaining items are processed and returned in their order;
\* the handler does not raise.
C8_FailedItemSkipped ==
    (/\ invoked /\ remote.ok /\ ~node.return_type.isdict
     /\ node.return_type.type \in {"IMAGE", "AUDIO", "SVG"}
     /\ remote.val.t = "list" /\ Len(remote.val.items) >= 2
     /\ \A i \in DOMAIN remote.val.items :
           MediaItem(node.return_type.type, remote.val.items[i])
     /\ Cardinality({i \in DOMAIN remote.val.items :
           FailedItem(node.return_type.type, remote.val.items[i])}) = 1) =>
        LET type == node.return_type.type
            rest == SelectSeq(remote.val.items,
                              LAMBDA x : ~FailedItem(type, x))
        IN  /\ run.result.ok
            /\ run.result = shape_output(node.return_type, List(rest),
                                         reachable)

\* ---------------------------------------------------- the IS_CHANGED probe
\* force_rerun not supplied, set, unset.
ProbeKwargs ==
    {Empty, [k \in {"force_rerun"} |-> BoolV(TRUE)],
     [k \in {"force_rerun"} |-> BoolV(FALSE)]}

\* The clock time.time() reads moves on.
Tick ==
    /\ now < MaxTime
    /\ now' = now + 1
    /\ UNCHANGED <<probeLog, regVars, loadVars, arrVars, runVars, audVars>>

\* Lines 43-45: the editor calls IS_CHANGED; the log keeps the last two calls.
CallIsChanged ==
    /\ \E kw \in ProbeKwargs :
          LET entry == [kw |-> kw, at |-> now, res |-> IS_CHANGED(kw, now)]
              log == Append(probeLog, entry)
          IN  probeLog' = IF Len(log) > 2 THEN Tail(log) ELSE log
    /\ UNCHANGED <<now, regVars, loadVars, arrVars, runVars, audVars>>

ProbeNext == Tick \/ CallIsChanged

InitProbe == RegIdle /\ LoadIdle /\ ArrIdle /\ RunIdle /\ ProbeIdle /\ AudIdle

SpecProbe == InitProbe /\ [][ProbeNext]_vars

ForceRerunSet(kw) ==
    "force_rerun" \in DOMAIN kw /\ kw["force_rerun"] = BoolV(TRUE)

ForceRerunSupplied(kw) == "force_rerun" \in DOMAIN kw

NonEmptyValue(v) == v.t # "none" /\ ~(v.t = "str" /\ v.s = <<>>)

\* C9 as stated: of two successive calls of IS_CHANGED, when force-rerun is
\* set on both, each returns a non-empty value and the two values differ;
\* when force-rerun is unset on both (not supplied included), each returns
\* the same constant value.
C9_FreshWhenSetConstantWhenUnset ==
    Len(probeLog) = 2 =>
        LET e1 == probeLog[1]
            e2 == probeLog[2]
        IN  /\ (ForceRerunSet(e1.kw) /\ ForceRerunSet(e2.kw)) =>
                  /\ e1.res.ok /\ e2.res.ok
                  /\ NonEmptyValue(e1.res.val) /\ NonEmptyValue(e2.res.val)
                  /\ e1.res.val # e2.res.val
            /\ (~ForceRerunSet(e1.kw) /\ ~ForceRerunSet(e2.kw)) =>
                  /\ e1.res.ok /\ e2.res.ok
                  /\ e1.res.val = e2.res.val

\* C9 as amended: a call of IS_CHANGED with force-rerun set returns the
\* reading of the clock at the call, a non-empty value, so the values of two
\* successive such calls differ exactly when the clock has moved between
\* them; a call with force-rerun supplied and unset returns the empty string,
\* the same at every call; a call with force-rerun not supplied raises
\* KeyError.
C9_ClockReadingWhenSetEmptyWhenUnset ==
    /\ \A i \in DOMAIN probeLog :
          LET e == probeLog[i]
          IN  /\ ForceRerunSet(e.kw) =>
                    /\ e.res = Returned(Float(e.at))
                    /\ NonEmptyValue(e.res.val)
              /\ (ForceRerunSupplied(e.kw) /\ ~ForceRerunSet(e.kw)) =>
                    e.res = Returned(Str(<<>>))
              /\ ~ForceRerunSupplied(e.kw) =>
                    (~e.res.ok /\ e.res.err = "KeyError")
    /\ Len(probeLog) = 2 =>
          LET e1 == probeLog[1]
              e2 == probeLog[2]
          IN  (ForceRerunSet(e1.kw) /\ ForceRerunSet(e2.kw)) =>
                 (e1.res.val # e2.res.val <=> e1.at # e2.at)

\* Two successive calls with force-rerun set, the clock having moved between
\* them, returned two different readings.
C9_Witness ==
    /\ Len(probeLog) = 2
    /\ ForceRerunSet(probeLog[1].kw) /\ ForceRerunSet(probeLog[2].kw)
    /\ probeLog[1].at < probeLog[2].at
    /\ probeLog[1].res.ok /\ probeLog[2].res.ok
    /\ probeLog[1].res.val # probeLog[2].res.val

\* ------------------------------------------------- audio_to_base64 alone
Shapes == UNION {[1..n -> 1..MaxSize] : n \in 0..MaxDims}

\* The audio dict and the (waveform, sample_rate) tuple, of every shape.
AudioInputs ==
    {AudioDict(sh, 8) : sh \in Shapes}
        \cup {Tuple(<<Tensor(sh, FALSE), IntV(8)>>) : sh \in Shapes}

AudInit ==
    /\ audIn \in AudioInputs
    /\ audOut = Returned(None)
    /\ audDone = FALSE

\* Lines 85-108: the call of audio_to_base64.
AudioToBase64 ==
    /\ ~audDone
    /\ audOut' = audio_to_base64(audIn)
    /\ audDone' = TRUE
    /\ UNCHANGED <<audIn, regVars, loadVars, arrVars, runVars, probeVars>>

InitAudio == RegIdle /\ LoadIdle /\ ArrIdle /\ RunIdle /\ ProbeIdle /\ AudInit

SpecAudio == InitAudio /\ [][AudioToBase64]_vars

\* C10: for every waveform shape, audio_to_base64 either rejects the waveform
\* or encodes a waveform of exactly two dimensions: 1 by N for a
\* 1-dimensional one of N samples, the waveform itself for a 2-dimensional
\* one, and the squeezed waveform for one of more than two dimensions, which
\* is rejected if still of more than two after squeezing.
C10_EncodesTwoDimensions ==
    audDone =>
        LET shape == WaveformShape(audIn)
        IN  /\ audOut.ok =>
                  /\ Len(audOut.val.shape) = 2
                  /\ Len(shape) = 1 => audOut.val.shape = <<1, shape[1]>>
                  /\ Len(shape) = 2 => audOut.val.shape = shape
                  /\ Len(shape) > 2 => audOut.val.shape = squeeze(shape)
            /\ (Len(shape) > 2 /\ Len(squeeze(shape)) > 2) => ~audOut.ok

====
